---- MODULE Spec2Model ----
(***************************************************************************)
(* Camera-pose trajectory synthesis (utils/pose_utils.py).                 *)
(*                                                                         *)
(* Numbers.  The program computes in IEEE doubles.  The model computes     *)
(* exactly, in the numbers (n/d)*sqrt(r) with n, d, r integers, which is   *)
(* the smallest domain closed under what the code does to the inputs the   *)
(* model draws: + - * / on rationals, and the square root of a rational    *)
(* (np.linalg.norm).  The non-finite doubles are kept: d = 0 stands for    *)
(* +inf (n = 1), -inf (n = -1) and NaN (n = 0), with numpy's rules         *)
(* (x/0 = +-inf, 0/0 = NaN, 0*inf = NaN, inf-inf = NaN, sqrt(-1) = NaN).  *)
(* A value the domain cannot hold (a sum of two different surds, the       *)
(* cosine of an angle that is no multiple of a quarter turn) is Irr, which *)
(* every operation propagates: it stands for a double the model does not   *)
(* know.  So does a number whose numerator or denominator leaves the       *)
(* integers of the model checker.  Rounding is not modelled.               *)
(*                                                                         *)
(* Every function of the source is an operator of the same name.  A local  *)
(* of the source that is used more than once is a parameter of a helper    *)
(* operator (name_local), so that it is computed once.                     *)
(***************************************************************************)
EXTENDS Integers, Sequences, FiniteSets, TLC

VARIABLES fn, args, loc, ret, pc

vars == <<fn, args, loc, ret, pc>>

----------------------------------------------------------------------------
(* Integer helpers *)

Abs(x) == IF x < 0 THEN -x ELSE x

Sign(x) == IF x < 0 THEN -1 ELSE IF x > 0 THEN 1 ELSE 0

RECURSIVE Gcd(_, _)
Gcd(a, b) == IF b = 0 THEN a ELSE Gcd(b, a % b)

\* the s in 1..200 with s*s dividing m (m >= 1)
SqCandidates(m) == {s \in 1..200 : s * s <= m /\ m % (s * s) = 0}

SqPart_s(m, s) ==
  IF m \div (s * s) <= 40000 /\ SqCandidates(m \div (s * s)) = {1} THEN s ELSE 0

\* the largest s with s*s dividing m (m >= 1); 0 when the search, which
\* ends at 200, does not find it
SqPart(m) == SqPart_s(m, CHOOSE s \in SqCandidates(m) : \A t \in SqCandidates(m) : t <= s)

----------------------------------------------------------------------------
(* Numbers: [n, d, r] is (n/d)*sqrt(r); d = 0 is non-finite *)

NaN == [n |-> 0, d |-> 0, r |-> 1]

PosInf == [n |-> 1, d |-> 0, r |-> 1]

NegInf == [n |-> -1, d |-> 0, r |-> 1]

\* a double the model does not know
Irr == [n |-> 0, d |-> 0, r |-> 0]

Zero == [n |-> 0, d |-> 1, r |-> 1]

One == [n |-> 1, d |-> 1, r |-> 1]

IsFinite(a) == a.d # 0

IsIrr(a) == a.r = 0

IsNaN(a) == a.d = 0 /\ a.n = 0 /\ a.r # 0

IsZero(a) == a.d # 0 /\ a.n = 0

MkNumG(n, d, r, g) == [n |-> n \div g, d |-> d \div g, r |-> r]

\* (n/d)*sqrt(r) in lowest terms, for d > 0 and r square-free
MkNum(n, d, r) == IF n = 0 THEN Zero ELSE MkNumG(n, d, r, Gcd(Abs(n), d))

Q(n, d) == MkNum(n, d, 1)

I(n) == [n |-> n, d |-> 1, r |-> 1]

Neg(a) == [n |-> -a.n, d |-> a.d, r |-> a.r]

\* np.abs
NAbs(a) == [n |-> Abs(a.n), d |-> a.d, r |-> a.r]

\* np.sign; the sign of NaN is NaN
NSign(a) == IF IsIrr(a) \/ IsNaN(a) THEN a ELSE I(Sign(a.n))

\* the product x*y and the sum of two such products are integers of the model
Fits(x, y) == x = 0 \/ Abs(y) <= 1073741823 \div Abs(x)

MulFits(a, b, g, g1, g2) ==
  /\ Fits(a.n \div g1, b.n \div g2)
  /\ Fits((a.n \div g1) * (b.n \div g2), g)
  /\ Fits(a.d \div g2, b.d \div g1)
  /\ Fits(a.r \div g, b.r \div g)

MulG(a, b, g, g1, g2) ==
  IF MulFits(a, b, g, g1, g2)
    THEN MkNum((a.n \div g1) * (b.n \div g2) * g,
               (a.d \div g2) * (b.d \div g1),
               (a.r \div g) * (b.r \div g))
    ELSE Irr

Mul(a, b) ==
  IF IsIrr(a) \/ IsIrr(b) THEN Irr
  ELSE IF IsNaN(a) \/ IsNaN(b) THEN NaN
  ELSE IF a.d = 0 \/ b.d = 0
    THEN (IF a.n = 0 \/ b.n = 0 THEN NaN
          ELSE [n |-> Sign(a.n) * Sign(b.n), d |-> 0, r |-> 1])
  ELSE IF a.n = 0 \/ b.n = 0 THEN Zero
  ELSE MulG(a, b, Gcd(a.r, b.r), Gcd(Abs(a.n), b.d), Gcd(Abs(b.n), a.d))

AddG(a, b, g) ==
  IF Fits(a.n, b.d \div g) /\ Fits(b.n, a.d \div g) /\ Fits(a.d \div g, b.d)
    THEN MkNum(a.n * (b.d \div g) + b.n * (a.d \div g), (a.d \div g) * b.d, a.r)
    ELSE Irr

Add(a, b) ==
  IF IsIrr(a) \/ IsIrr(b) THEN Irr
  ELSE IF IsNaN(a) \/ IsNaN(b) THEN NaN
  ELSE IF a.d = 0 /\ b.d = 0 THEN (IF a.n = b.n THEN a ELSE NaN)
  ELSE IF a.d = 0 THEN a
  ELSE IF b.d = 0 THEN b
  ELSE IF a.n = 0 THEN b
  ELSE IF b.n = 0 THEN a
  ELSE IF a.r # b.r THEN Irr
  ELSE AddG(a, b, Gcd(a.d, b.d))

Sub(a, b) == Add(a, Neg(b))

\* 1/a; 1/0 = +inf as numpy divides
Inv(a) ==
  IF IsIrr(a) THEN Irr
  ELSE IF IsNaN(a) THEN NaN
  ELSE IF a.d = 0 THEN Zero
  ELSE IF a.n = 0 THEN PosInf
  ELSE IF ~Fits(a.n, a.r) THEN Irr
  ELSE MkNum(Sign(a.n) * a.d, Abs(a.n) * a.r, a.r)

\* a/b as numpy divides doubles: x/0 = +-inf, 0/0 = NaN
Div(a, b) == Mul(a, Inv(b))

\* sqrt(n/d) for n = sn*sn*n1 and d = sd*sd*d1 with n1 and d1 square-free
SqrtS(n, d, sn, sd) ==
  IF sn = 0 \/ sd = 0 THEN Irr
  ELSE IF Fits(n \div (sn * sn), d \div (sd * sd))
    THEN MkNum(sn, sd * (d \div (sd * sd)), (n \div (sn * sn)) * (d \div (sd * sd)))
    ELSE Irr

\* np.sqrt of a rational; the root of a surd is outside the domain
Sqrt(a) ==
  IF IsIrr(a) THEN Irr
  ELSE IF IsNaN(a) THEN NaN
  ELSE IF a.d = 0 THEN (IF a.n > 0 THEN PosInf ELSE NaN)
  ELSE IF a.n < 0 THEN NaN
  ELSE IF a.n = 0 THEN Zero
  ELSE IF a.r # 1 THEN Irr
  ELSE SqrtS(a.n, a.d, SqPart(a.n), SqPart(a.d))

\* a < b for finite a and b with one surd
LessSurd(a, b, g) ==
  Fits(a.n, b.d \div g) /\ Fits(b.n, a.d \div g) /\ a.n * (b.d \div g) < b.n * (a.d \div g)

\* a < b for the squares a and b
LessSquare(a, b) == ~IsIrr(a) /\ ~IsIrr(b) /\ LessSurd(a, b, Gcd(a.d, b.d))

\* a < b for finite a and b of one sign s # 0
LessSameSign(a, b, s, g) ==
  IF a.r = b.r THEN LessSurd(a, b, g)
  ELSE IF s > 0 THEN LessSquare(Mul(a, a), Mul(b, b))
  ELSE LessSquare(Mul(b, b), Mul(a, a))

\* a < b; FALSE when either is NaN, as IEEE compares, and when the model
\* does not know
Less(a, b) ==
  IF IsIrr(a) \/ IsIrr(b) \/ IsNaN(a) \/ IsNaN(b) THEN FALSE
  ELSE IF a.d = 0 \/ b.d = 0
    THEN (IF a.d = 0 THEN 2 * a.n ELSE Sign(a.n)) <
         (IF b.d = 0 THEN 2 * b.n ELSE Sign(b.n))
  ELSE IF Sign(a.n) # Sign(b.n) THEN Sign(a.n) < Sign(b.n)
  ELSE IF a.n = 0 THEN FALSE
  ELSE LessSameSign(a, b, Sign(a.n), Gcd(a.d, b.d))

Leq(a, b) == ~IsNaN(a) /\ ~IsNaN(b) /\ ~IsIrr(a) /\ ~IsIrr(b) /\ ~Less(b, a)

\* the larger of two doubles; NaN if either is NaN (np.max, np.maximum)
Max2(a, b) ==
  IF IsIrr(a) \/ IsIrr(b) THEN Irr
  ELSE IF IsNaN(a) \/ IsNaN(b) THEN NaN
  ELSE IF Less(a, b) THEN b ELSE a

\* np.minimum of two doubles; NaN if either is NaN
Min2(a, b) ==
  IF IsIrr(a) \/ IsIrr(b) THEN Irr
  ELSE IF IsNaN(a) \/ IsNaN(b) THEN NaN
  ELSE IF Less(b, a) THEN b ELSE a

----------------------------------------------------------------------------
(* Vectors (sequences of numbers) and matrices (sequences of rows) *)

\* a function with domain 1..n as a tuple: its entries are computed once
Tup(f) == f \o <<>>

Vec(x, y, z) == <<I(x), I(y), I(z)>>

VScale(v, a) == Tup([i \in DOMAIN v |-> Mul(v[i], a)])

VDivS(v, a) == Tup([i \in DOMAIN v |-> Div(v[i], a)])

VAdd(u, v) == Tup([i \in DOMAIN u |-> Add(u[i], v[i])])

VSub(u, v) == Tup([i \in DOMAIN u |-> Sub(u[i], v[i])])

\* the elementwise product u * v
VMul(u, v) == Tup([i \in DOMAIN u |-> Mul(u[i], v[i])])

VNeg(v) == Tup([i \in DOMAIN v |-> Neg(v[i])])

VAbs(v) == Tup([i \in DOMAIN v |-> NAbs(v[i])])

RECURSIVE SumTo(_, _)
SumTo(s, k) == IF k = 0 THEN Zero ELSE Add(SumTo(s, k - 1), s[k])

\* the sum of a sequence of numbers; the empty sum is 0
Sum(s) == SumTo(s, Len(s))

Dot(u, v) == Sum(VMul(u, v))

\* np.cross
Cross(u, v) ==
  << Sub(Mul(u[2], v[3]), Mul(u[3], v[2])),
     Sub(Mul(u[3], v[1]), Mul(u[1], v[3])),
     Sub(Mul(u[1], v[2]), Mul(u[2], v[1])) >>

\* np.linalg.norm of a vector
Norm(v) == Sqrt(Dot(v, v))

Col(m, j) == Tup([i \in DOMAIN m |-> m[i][j]])

\* np.max over a non-empty sequence; a NaN entry makes the result NaN
RECURSIVE MaxTo(_, _)
MaxTo(s, k) == IF k = 1 THEN s[1] ELSE Max2(MaxTo(s, k - 1), s[k])

MeanT(t) == Div(Sum(t), I(Len(t)))

\* np.mean of a sequence of numbers: the sum over the count (0/0 = NaN when empty)
Mean(s) == MeanT(Tup(s))

\* t.mean(axis=0) of a sequence of vectors of dimension n
MeanVec(vs, n) == Tup([j \in 1..n |-> Mean([i \in DOMAIN vs |-> vs[i][j]])])

\* t.sum(axis=0) of a sequence of vectors of dimension n
SumVec(vs, n) == Tup([j \in 1..n |-> Sum(Tup([i \in DOMAIN vs |-> vs[i][j]]))])

\* the mean over a stack of matrices with r rows and c columns (NaN when empty)
MeanMat(ms, r, c) ==
  Tup([a \in 1..r |-> Tup([b \in 1..c |-> Mean([i \in DOMAIN ms |-> ms[i][a][b]])])])

Transpose(m) == Tup([j \in DOMAIN m[1] |-> Tup([i \in DOMAIN m |-> m[i][j]])])

\* a @ v for a vector v
MatVec(a, v) == Tup([i \in DOMAIN a |-> Dot(a[i], v)])

MatMulT(a, bt) == Tup([i \in DOMAIN a |-> Tup([j \in DOMAIN bt |-> Dot(a[i], bt[j])])])

\* a @ b
MatMul(a, b) == MatMulT(a, Transpose(b))

\* np.diag of a sequence
Diag(v) == Tup([i \in DOMAIN v |-> Tup([j \in DOMAIN v |-> IF i = j THEN v[i] ELSE Zero])])

Eye(n) == Tup([i \in 1..n |-> Tup([j \in 1..n |-> IF i = j THEN One ELSE Zero])])

\* the matrix m with the column v appended
AppendCol(m, v) == Tup([i \in DOMAIN m |-> Append(m[i], v[i])])

\* m[:rows, :cols]
Block(m, rows, cols) == Tup([i \in 1..rows |-> SubSeq(m[i], 1, cols)])

\* row i and column j removed
Minor(m, i, j) ==
  Tup([a \in 1..(Len(m) - 1) |-> Tup([b \in 1..(Len(m) - 1) |->
    m[IF a < i THEN a ELSE a + 1][IF b < j THEN b ELSE b + 1]])])

\* np.linalg.det, by expansion along the first row
RECURSIVE Det(_)
Det(m) ==
  IF Len(m) = 1 THEN m[1][1]
  ELSE Sum(Tup([j \in 1..Len(m) |->
         Mul(IF j % 2 = 1 THEN m[1][j] ELSE Neg(m[1][j]), Det(Minor(m, 1, j)))]))

Adjugate(m) ==
  Tup([i \in 1..Len(m) |-> Tup([j \in 1..Len(m) |->
     IF (i + j) % 2 = 0 THEN Det(Minor(m, j, i)) ELSE Neg(Det(Minor(m, j, i)))])])

\* What np.linalg.inv does to an exactly singular matrix depends on rounding:
\* LAPACK raises LinAlgError only when a pivot is exactly zero, and otherwise
\* returns the quotients by a near-zero pivot.  Both outcomes are modelled,
\* except for a matrix of entries -1, 0, 1, whose elimination is exact in
\* doubles (the multipliers are 0, +-1/2, +-1) and ends in a zero pivot.
SingularOutcomes == {"raise", "garbage"}

ExactElimination(m) ==
  \A i \in DOMAIN m : \A j \in DOMAIN m[i] : m[i][j] \in {I(-1), Zero, One}

MDivS(m, a) == Tup([i \in DOMAIN m |-> VDivS(m[i], a)])

LinalgInv_det(m, det, sing) ==
  IF IsZero(det) /\ (sing = "raise" \/ ExactElimination(m))
    THEN [err |-> "LinAlgError", val |-> <<>>]
    ELSE [err |-> "", val |-> MDivS(Adjugate(m), det)]

\* np.linalg.inv; sing chooses the outcome on a singular matrix
LinalgInv(m, sing) == LinalgInv_det(m, Det(m), sing)

----------------------------------------------------------------------------
(* Linear-algebra primitives *)

normalize_noop(x) == x

normalize(x) == VDivS(x, Norm(x))

\* np.stack([vec0, vec1, vec2, pos], 1): the vectors become the columns
viewmatrix_m(vec0, vec1, vec2, pos) ==
  Tup([i \in 1..3 |-> <<vec0[i], vec1[i], vec2[i], pos[i]>>])

viewmatrix_vec1(vec0, vec2, pos) ==
  viewmatrix_m(vec0, normalize(Cross(vec2, vec0)), vec2, pos)

viewmatrix_vec0(vec2, vec1_avg, pos) ==
  viewmatrix_vec1(normalize(Cross(vec1_avg, vec2)), vec2, pos)

viewmatrix(z, up, pos) == viewmatrix_vec0(normalize(z), up, pos)

BottomRow == <<Zero, Zero, Zero, One>>

\* p[..., :3, :4] with the bottom row [0, 0, 0, 1] appended (one pose)
pad_poses(p) == Append(Block(p, 3, 4), BottomRow)

\* p[..., :3, :4] (one pose)
unpad_poses(p) == Block(p, 3, 4)

\* poses[:, :3, j] for the 0-based column j of the source
PoseCol(poses, j) ==
  Tup([i \in DOMAIN poses |-> <<poses[i][1][j + 1], poses[i][2][j + 1], poses[i][3][j + 1]>>])

\* hwf is the last column of the first pose
poses_avg(poses) ==
  AppendCol(viewmatrix(normalize(SumVec(PoseCol(poses, 2), 3)),
                       SumVec(PoseCol(poses, 1), 3),
                       MeanVec(PoseCol(poses, 3), 3)),
            Col(Block(poses[1], 3, Len(poses[1][1])), Len(poses[1][1])))

get_focal(camera) == camera.FoVx

----------------------------------------------------------------------------
(* The resampler *)

Cumsum_append(c, x) == Append(c, IF c = <<>> THEN x ELSE Add(c[Len(c)], x))

RECURSIVE CumsumTo(_, _)
CumsumTo(w, k) == IF k = 0 THEN <<>> ELSE Cumsum_append(CumsumTo(w, k - 1), w[k])

\* np.cumsum
Cumsum(w) == CumsumTo(w, Len(w))

\* np.minimum(1, cw)
MinimumOne(cw) == Tup([i \in DOMAIN cw |-> Min2(One, cw[i])])

integrate_weights_np_whole(w) == <<Zero>> \o MinimumOne(Cumsum(w)) \o <<One>>

\* w[..., :-1] is SubSeq(w, 1, Len(w) - 1)
integrate_weights_np(w) ==
  <<Zero>> \o MinimumOne(Cumsum(SubSeq(w, 1, Len(w) - 1))) \o <<One>>

\* np.linspace(a, b, num) with the endpoint
Linspace_step(a, step, num) == Tup([k \in 1..num |-> Add(a, Mul(I(k - 1), step))])

Linspace(a, b, num) ==
  IF num = 1 THEN <<a>> ELSE Linspace_step(a, Div(Sub(b, a), I(num - 1)), num)

\* The search of np.interp for the interval of key: the last index j with
\* arr[j] <= key, found from the left (numpy bisects arrays longer than 4,
\* with the same answer on a sorted array).
RECURSIVE InterpSearch(_, _, _)
InterpSearch(key, arr, i) ==
  IF i <= Len(arr) /\ Leq(arr[i], key) THEN InterpSearch(key, arr, i + 1) ELSE i - 1

\* if the interpolation is NaN from the left end it is tried from the right
Interp_nan(r1, r2, lo, hi) ==
  IF ~IsNaN(r1) THEN r1
  ELSE IF IsNaN(r2) /\ lo = hi THEN lo
  ELSE r2

Interp_slope(x, xp, fp, j, slope) ==
  Interp_nan(Add(Mul(slope, Sub(x, xp[j])), fp[j]),
             Add(Mul(slope, Sub(x, xp[j + 1])), fp[j + 1]), fp[j], fp[j + 1])

Interp_j(x, xp, fp, j) ==
  IF j = Len(xp) THEN fp[j]
  ELSE IF xp[j] = x THEN fp[j]
  ELSE Interp_slope(x, xp, fp, j, Div(Sub(fp[j + 1], fp[j]), Sub(xp[j + 1], xp[j])))

Interp_x(x, xp, fp) ==
  IF IsNaN(x) \/ IsIrr(x) THEN x
  ELSE IF Less(xp[Len(xp)], x) THEN fp[Len(fp)]
  ELSE IF Less(x, xp[1]) THEN fp[1]
  ELSE Interp_j(x, xp, fp, InterpSearch(x, xp, 2))

\* np.interp(x, xp, fp) for sequences xp and fp of one length
Interp(x, xp, fp) == Tup([i \in DOMAIN x |-> Interp_x(x[i], xp, fp)])

\* np.log of a length is kept as the length it is the logarithm of, which
\* np.exp gives back: exp(log(x)) = x, with log(0) = -inf and exp(-inf) = 0
NpLog(x) == [log |-> x]

NpExp(l) == l.log

invert_cdf_np_exp(u, t, e) == Interp(u, integrate_weights_np(VDivS(e, Sum(e))), t)

invert_cdf_np(u, t, w_logits) ==
  invert_cdf_np_exp(u, t, Tup([i \in DOMAIN w_logits |-> NpExp(w_logits[i])]))

\* np.finfo(np.float32).eps is 2^-23
EpsDen == 8388608

eps == Q(1, EpsDen)

\* rand is None, single_jitter and deterministic_center are False
sample_np(t, w_logits, num_samples) ==
  invert_cdf_np(Linspace(Zero, Sub(One, eps), num_samples), t, w_logits)

----------------------------------------------------------------------------
(* Angles, percentiles *)

\* Angles are kept in turns: the number q stands for the angle 2*pi*q, so
\* np.linspace(0, 2*pi, n) is Linspace(Zero, One, n).  The cosine and the
\* sine are in the number domain at the multiples of a quarter turn.
IsQuarterTurn(q) == IsFinite(q) /\ q.r = 1 /\ (4 * q.n) % q.d = 0

QuarterCos(k) == <<One, Zero, I(-1), Zero>>[(k % 4) + 1]

NpCos(q) ==
  IF IsIrr(q) THEN Irr
  ELSE IF ~IsFinite(q) THEN NaN
  ELSE IF IsQuarterTurn(q) THEN QuarterCos((4 * q.n) \div q.d)
  ELSE Irr

NpSin(q) ==
  IF IsIrr(q) THEN Irr
  ELSE IF ~IsFinite(q) THEN NaN
  ELSE IF IsQuarterTurn(q) THEN QuarterCos(((4 * q.n) \div q.d) + 3)
  ELSE Irr

RECURSIVE SortInsert(_, _)
SortInsert(s, x) ==
  IF s = <<>> THEN <<x>>
  ELSE IF Less(x, s[Len(s)])
    THEN Append(SortInsert(SubSeq(s, 1, Len(s) - 1), x), s[Len(s)])
  ELSE Append(s, x)

RECURSIVE SortTo(_, _)
SortTo(s, k) == IF k = 0 THEN <<>> ELSE SortInsert(SortTo(s, k - 1), s[k])

Percentile_sorted(v, lo, frac) ==
  IF lo = Len(v) THEN v[lo] ELSE Add(v[lo], Mul(Sub(v[lo + 1], v[lo]), frac))

\* np.percentile(a, q) of a non-empty sequence: linear interpolation at the
\* virtual index (q/100)*(N-1) of the sorted values; NaN if a holds a NaN
Percentile(a, q) ==
  IF \E i \in DOMAIN a : IsIrr(a[i]) THEN Irr
  ELSE IF \E i \in DOMAIN a : IsNaN(a[i]) THEN NaN
  ELSE Percentile_sorted(SortTo(a, Len(a)), ((q * (Len(a) - 1)) \div 100) + 1,
                         Q((q * (Len(a) - 1)) % 100, 100))

\* np.percentile(vs, q, axis=0) of a sequence of vectors of dimension 3
PercentileVec(vs, q) ==
  Tup([j \in 1..3 |-> Percentile(Tup([i \in DOMAIN vs |-> vs[i][j]]), q)])

\* np.argmax of a sequence of three doubles: the first maximum, or the first NaN
Argmax(v) ==
  IF \E i \in 1..3 : IsNaN(v[i]) \/ IsIrr(v[i])
    THEN CHOOSE i \in 1..3 : (IsNaN(v[i]) \/ IsIrr(v[i])) /\
                             \A j \in 1..(i - 1) : ~(IsNaN(v[j]) \/ IsIrr(v[j]))
    ELSE CHOOSE i \in 1..3 : /\ \A j \in 1..3 : ~Less(v[i], v[j])
                             /\ \A j \in 1..(i - 1) : Less(v[j], v[i])

----------------------------------------------------------------------------
(* Pose aggregation *)

\* The unit vectors the model has for eigenvectors: the axes and the
\* diagonals of the coordinate planes, with both signs.
HalfSqrt2 == [n |-> 1, d |-> 2, r |-> 2]

EigPool ==
  LET S == {-1, 1}
      h(x) == IF x = 1 THEN HalfSqrt2 ELSE Neg(HalfSqrt2)
  IN  {<<I(x), Zero, Zero>> : x \in S} \cup {<<Zero, I(x), Zero>> : x \in S}
        \cup {<<Zero, Zero, I(x)>> : x \in S}
        \cup {<<h(x), h(y), Zero>> : x \in S, y \in S}
        \cup {<<h(x), Zero, h(y)>> : x \in S, y \in S}
        \cup {<<Zero, h(x), h(y)>> : x \in S, y \in S}

IsDiagonal(c) == \A i \in 1..3 : \A j \in 1..3 : i # j => IsZero(c[i][j])

EigOf(c, v1, v2, v3) ==
  [eigval |-> <<Dot(v1, MatVec(c, v1)), Dot(v2, MatVec(c, v2)), Dot(v3, MatVec(c, v3))>>,
   eigvec |-> Tup([i \in 1..3 |-> <<v1[i], v2[i], v3[i]>>])]

EigBases(c, ev) ==
  UNION {UNION {{EigOf(c, v1, v2, v3)
                   : v3 \in {w \in ev : IsZero(Dot(w, v1)) /\ IsZero(Dot(w, v2))}}
                  : v2 \in {w \in ev : IsZero(Dot(w, v1))}}
           : v1 \in ev}

\* np.linalg.eig of a symmetric 3x3 matrix.  A diagonal matrix is in Schur
\* form already: the eigenvalues returned are its diagonal, in order, and
\* the eigenvectors are the identity (as for np.diag((1, 2, 3)) in numpy's
\* documentation).  Otherwise the eigenvalues come in no promised order
\* and the unit eigenvectors (the columns) with no promised sign, and any
\* orthonormal basis of a repeated eigenvalue's space may be returned:
\* every such answer with eigenvectors in EigPool is an outcome.
EigOutcomes(c) ==
  IF IsDiagonal(c)
    THEN {[eigval |-> <<c[1][1], c[2][2], c[3][3]>>, eigvec |-> Eye(3)]}
    ELSE EigBases(c, {v \in EigPool : MatVec(c, v) = VScale(v, Dot(v, MatVec(c, v)))})

Covariance_t(t) ==
  Tup([a \in 1..3 |-> Tup([b \in 1..3 |->
    Sum(Tup([i \in DOMAIN t |-> Mul(t[i][a], t[i][b])]))])])

Covariance_mean(t, t_mean) == Covariance_t(Tup([i \in DOMAIN t |-> VSub(t[i], t_mean)]))

\* the centred camera positions' t.T @ t
Covariance(poses) == Covariance_mean(PoseCol(poses, 3), MeanVec(PoseCol(poses, 3), 3))

ArgsortReversed_asc(asc) == <<asc[3], asc[2], asc[1]>>

\* np.argsort(v)[::-1] of three numbers: ascending and stable, then reversed
ArgsortReversed(v) ==
  ArgsortReversed_asc(
    CHOOSE q \in {<<1, 2, 3>>, <<1, 3, 2>>, <<2, 1, 3>>,
                  <<2, 3, 1>>, <<3, 1, 2>>, <<3, 2, 1>>} :
      \A k \in 1..2 : \/ Less(v[q[k]], v[q[k + 1]])
                      \/ (~Less(v[q[k + 1]], v[q[k]]) /\ q[k] < q[k + 1]))

\* the maximum of the absolute translation coordinates of a stack of poses
MaxAbsTranslation_t(t) ==
  MaxTo(Tup([k \in 1..(3 * Len(t)) |-> NAbs(t[((k - 1) \div 3) + 1][((k - 1) % 3) + 1])]),
        3 * Len(t))

MaxAbsTranslation(poses) == MaxAbsTranslation_t(PoseCol(poses, 3))

\* poses[:, :3, 3] *= s
ScaleTranslation(p, s) ==
  Tup([a \in DOMAIN p |->
    IF a <= 3 THEN <<p[a][1], p[a][2], p[a][3], Mul(p[a][4], s)>> ELSE p[a]])

\* lines 292-294: the translations are scaled, and the rows of the transform
pca_scale(poses_recentered, transform, scale_factor) ==
  [err |-> "",
   poses |-> Tup([i \in DOMAIN poses_recentered |->
               ScaleTranslation(poses_recentered[i], scale_factor)]),
   transform |-> MatMul(Diag(<<scale_factor, scale_factor, scale_factor, One>>), transform),
   scale_factor |-> scale_factor]

\* lines 279-281: the flip when the mean y axis points down
pca_flip(poses_recentered, transform) ==
  IF Less(Mean([i \in DOMAIN poses_recentered |-> poses_recentered[i][3][2]]), Zero)
    THEN pca_scale(Tup([i \in DOMAIN poses_recentered |->
                      MatMul(Diag(<<One, I(-1), I(-1)>>), poses_recentered[i])]),
                   MatMul(Diag(<<One, I(-1), I(-1), One>>), transform),
                   Div(One, MaxAbsTranslation(poses_recentered)))
    ELSE pca_scale(poses_recentered, transform,
                   Div(One, MaxAbsTranslation(poses_recentered)))

\* lines 274-276
pca_transform(poses, transform) ==
  pca_flip(Tup([i \in DOMAIN poses |->
             unpad_poses(MatMul(transform, pad_poses(poses[i])))]),
           Append(transform, BottomRow))

\* line 274
pca_rot(poses, rot, t_mean) ==
  pca_transform(poses, AppendCol(rot, MatVec(rot, VNeg(t_mean))))

\* lines 271-272
pca_det(rot) ==
  IF Less(Det(rot), Zero) THEN MatMul(Diag(<<One, One, I(-1)>>), rot) ELSE rot

\* eigvec[:, inds]
pca_eigvec(eigvec, inds) ==
  Tup([i \in 1..3 |-> <<eigvec[i][inds[1]], eigvec[i][inds[2]], eigvec[i][inds[3]]>>])

\* e is the answer of np.linalg.eig.  The record returned holds the outcome:
\* err = "ValueError" when np.max is applied to an empty array, else the
\* pair (poses, transform) and the local scale_factor.
transform_poses_pca(poses, e) ==
  IF Len(poses) = 0
    THEN [err |-> "ValueError", poses |-> <<>>, transform |-> <<>>, scale_factor |-> NaN]
    ELSE pca_rot(poses, pca_det(Transpose(pca_eigvec(e.eigvec, ArgsortReversed(e.eigval)))),
                 MeanVec(PoseCol(poses, 3), 3))

\* np.eye(3) - d * d^T for the column vector d
Projector(d) ==
  Tup([a \in 1..3 |-> Tup([b \in 1..3 |->
    Sub(IF a = b THEN One ELSE Zero, Mul(d[a], d[b]))])])

Projectors(directions) == Tup([i \in DOMAIN directions |-> Projector(directions[i])])

focus_point_inv(inv, rhs) ==
  IF inv.err # "" THEN [err |-> inv.err, val |-> <<>>]
  ELSE [err |-> "", val |-> MatVec(inv.val, rhs)]

focus_point_no_inv(mt_m, origins, sing) ==
  [err |-> "",
   val |-> MatVec(MeanMat(mt_m, 3, 3),
                  MeanVec(Tup([i \in DOMAIN mt_m |-> MatVec(mt_m[i], origins[i])]), 3))]

focus_point_mt_m(mt_m, origins, sing) ==
  focus_point_inv(LinalgInv(MeanMat(mt_m, 3, 3), sing),
                  MeanVec(Tup([i \in DOMAIN mt_m |-> MatVec(mt_m[i], origins[i])]), 3))

focus_point_m(m, origins, sing) ==
  focus_point_mt_m(Tup([i \in DOMAIN m |-> MatMul(Transpose(m[i]), m[i])]), origins, sing)

\* sing chooses what np.linalg.inv does when the mean of mt_m is singular
focus_point_fn(poses, sing) ==
  focus_point_m(Projectors(PoseCol(poses, 2)), PoseCol(poses, 3), sing)

average_pose(poses) ==
  [err |-> "",
   val |-> viewmatrix(MeanVec(PoseCol(poses, 2), 3), MeanVec(PoseCol(poses, 1), 3),
                      MeanVec(PoseCol(poses, 3), 3))]

----------------------------------------------------------------------------
(* Bounds of the inputs *)

MaxCoord == 1

MaxScale == 2

MaxPoses == 3

MaxLen == 3

Coords == -MaxCoord..MaxCoord

IntVecs == {Vec(x, y, z) : x \in Coords, y \in Coords, z \in Coords}

\* up hints: every direction of the unit cube
UpHints == {Vec(x, y, z) : x \in {-1, 0, 1}, y \in {-1, 0, 1}, z \in {-1, 0, 1}}

Origins == {Vec(0, 0, 0), Vec(1, -2, 3)}

NoRet == <<>>

NoLoc == <<>>

IntMat(m) == Tup([i \in DOMAIN m |-> Tup([j \in DOMAIN m[i] |-> I(m[i][j])])])

\* the 3x4 pose [R | t]
MkPose(R, t) == AppendCol(R, t)

RotI == IntMat(<<(<<1, 0, 0>>), <<0, 1, 0>>, <<0, 0, 1>>>>)

RotX180 == IntMat(<<(<<1, 0, 0>>), <<0, -1, 0>>, <<0, 0, -1>>>>)

RotX90 == IntMat(<<(<<1, 0, 0>>), <<0, 0, -1>>, <<0, 1, 0>>>>)

RotY90 == IntMat(<<(<<0, 0, 1>>), <<0, 1, 0>>, <<-1, 0, 0>>>>)

\* a rotation about the x axis by the angle of the 3-4-5 triangle
RotX345 == <<(<<One, Zero, Zero>>), <<Zero, Q(3, 5), Q(-4, 5)>>, <<Zero, Q(4, 5), Q(3, 5)>>>>

\* camera poses with positions on a line, on a diagonal, in a plane and in
\* space; poses 1 and 5 are two cameras at one position
PcaPool ==
  << MkPose(RotI, Vec(-1, -1, 0)), MkPose(RotX180, Vec(1, -1, 0)),
     MkPose(RotX90, Vec(0, 2, 0)), MkPose(RotY90, Vec(0, 0, 0)),
     MkPose(RotY90, Vec(-1, -1, 0)), MkPose(RotX180, Vec(-1, -1, 4)),
     MkPose(RotX90, Vec(1, 1, 0)), MkPose(RotI, Vec(-1, 1, 0)) >>

\* the point the viewing lines of poses 1..4 of FocusPool pass through
FocusTarget == Vec(1, 2, 3)

\* poses 1..4 look along four directions through FocusTarget; poses 5 and 6
\* look along the z axis like pose 1, from elsewhere; pose 7 has a forward
\* axis of length 2
FocusPool ==
  << MkPose(RotI, Vec(1, 2, 0)), MkPose(RotY90, Vec(-1, 2, 3)),
     MkPose(RotX345, Vec(1, -2, 6)), MkPose(RotX90, Vec(1, 1, 3)),
     MkPose(RotI, Vec(0, 0, 0)), MkPose(RotX180, Vec(4, 0, 0)),
     MkPose(MatMul(Diag(<<I(2), I(2), I(2)>>), RotY90), Vec(0, 2, 3)) >>

\* the index sequences of length 0..n into a pool of k items, one for each
\* subset (the aggregates are sums over the poses, whatever their order)
IndexSeqs(k, n) ==
  {s \in UNION {[1..m -> 1..k] : m \in 0..n} :
     \A i \in DOMAIN s : \A j \in DOMAIN s : i < j => s[i] < s[j]}

Stack(pool, s) == Tup([i \in DOMAIN s |-> pool[s[i]]])

\* the weights k/4 for k in 0..4
Weights == {Q(k, 4) : k \in 0..4}

WeightVectors == UNION {[1..n -> Weights] : n \in 1..MaxLen}

----------------------------------------------------------------------------
(* viewmatrix applied to integer vectors *)

InitView ==
  /\ fn = "viewmatrix"
  /\ args \in [z : IntVecs, up : UpHints, pos : Origins]
  /\ loc = NoLoc
  /\ ret = NoRet
  /\ pc = "call"

CallViewmatrix ==
  /\ pc = "call"
  /\ fn = "viewmatrix"
  /\ ret' = viewmatrix(args.z, args.up, args.pos)
  /\ pc' = "done"
  /\ UNCHANGED <<fn, args, loc>>

NextView == CallViewmatrix

SpecView == InitView /\ [][NextView]_vars

ZeroVec == Vec(0, 0, 0)

\* z and up are both non-zero and not parallel
NonDegenerate(z, up) == z # ZeroVec /\ up # ZeroVec /\ Cross(up, z) # ZeroVec

\* the 3x3 block of rows 1..3, columns 1..3
Rot(m) == Block(m, 3, 3)

Orthonormal(m) ==
  \A i \in 1..3 : \A j \in 1..3 :
    Dot(Col(m, i), Col(m, j)) = IF i = j THEN One ELSE Zero

ViewDone == fn = "viewmatrix" /\ pc = "done"

\* C1: for z and up non-zero and not parallel, viewmatrix(z, up, pos) has
\* columns 0..2 mutually orthogonal and of unit length, of determinant +1,
\* column 2 in the direction of z and column 3 equal to pos; the rotation
\* block is the same when z or up is multiplied by a positive scalar.
C1_ViewmatrixOrthonormal ==
  (ViewDone /\ NonDegenerate(args.z, args.up)) =>
    /\ Len(ret) = 3 /\ \A i \in 1..3 : Len(ret[i]) = 4
    /\ Orthonormal(Rot(ret))
    /\ Det(Rot(ret)) = One
    /\ Cross(Col(ret, 3), args.z) = ZeroVec
    /\ Less(Zero, Dot(Col(ret, 3), args.z))
    /\ Col(ret, 4) = args.pos
    /\ \A k \in 1..MaxScale :
         /\ Rot(viewmatrix(VScale(args.z, I(k)), args.up, args.pos)) = Rot(ret)
         /\ Rot(viewmatrix(args.z, VScale(args.up, I(k)), args.pos)) = Rot(ret)

\* a non-degenerate call whose three axes need three different square roots
C1_Witness ==
  /\ ViewDone /\ NonDegenerate(args.z, args.up)
  /\ ret[1][1].r # ret[1][3].r /\ ret[1][1].r # 1 /\ ret[1][3].r # 1
  /\ ret[1][4] # Zero

\* no reachable value leaves the number domain
InDomain == pc = "done" => \A i \in DOMAIN ret : \A j \in DOMAIN ret[i] : ~IsIrr(ret[i][j])

----------------------------------------------------------------------------
(* integrate_weights_np applied to weight vectors *)

InitCdf ==
  /\ fn = "integrate_weights_np"
  /\ args \in {[w |-> w] : w \in WeightVectors}
  /\ loc = NoLoc
  /\ ret = NoRet
  /\ pc = "call"

CallCdf ==
  /\ pc = "call"
  /\ fn = "integrate_weights_np"
  /\ ret' = integrate_weights_np(args.w)
  /\ pc' = "done"
  /\ UNCHANGED <<fn, args, loc>>

NextCdf == CallCdf

SpecCdf == InitCdf /\ [][NextCdf]_vars

CdfDone == fn = "integrate_weights_np" /\ pc = "done"

\* w has non-negative entries that sum to 1
IsDistribution(w) == (\A i \in DOMAIN w : Leq(Zero, w[i])) /\ Sum(w) = One

\* C4: for w of length n >= 1 with non-negative entries summing to 1,
\* integrate_weights_np(w) has length n + 1, first element 0, last element
\* 1, every element in [0, 1], and no element smaller than the one before.
C4_CdfMonotone ==
  (CdfDone /\ Len(args.w) >= 1 /\ IsDistribution(args.w)) =>
    /\ Len(ret) = Len(args.w) + 1
    /\ ret[1] = Zero
    /\ ret[Len(ret)] = One
    /\ \A i \in DOMAIN ret : Leq(Zero, ret[i]) /\ Leq(ret[i], One)
    /\ \A i \in 1..(Len(ret) - 1) : Leq(ret[i], ret[i + 1])

\* a distribution over three bins whose CDF rises strictly to the pinned 1
C4_Witness ==
  /\ CdfDone /\ IsDistribution(args.w)
  /\ Len(args.w) = 3
  /\ ret = <<Zero, Q(1, 4), Q(3, 4), One>>

\* the same shape of result for weights that do not sum to 1, where the
\* clamp to 1 acts
C4_Clamped ==
  (CdfDone /\ \A i \in DOMAIN args.w : Leq(Zero, args.w[i])) =>
    /\ Len(ret) = Len(args.w) + 1
    /\ ret[1] = Zero
    /\ ret[Len(ret)] = One
    /\ \A i \in 1..(Len(ret) - 1) : Leq(ret[i], ret[i + 1])

----------------------------------------------------------------------------
(* transform_poses_pca applied to pose sets *)

InitPca ==
  /\ fn = "transform_poses_pca"
  /\ args \in {[poses |-> Stack(PcaPool, s)] : s \in IndexSeqs(Len(PcaPool), MaxPoses)}
  /\ EigOutcomes(Covariance(args.poses)) # {}
  /\ loc = NoLoc
  /\ ret = NoRet
  /\ pc = "call"

CallPca ==
  /\ pc = "call"
  /\ fn = "transform_poses_pca"
  /\ \E e \in EigOutcomes(Covariance(args.poses)) :
       \E r \in {transform_poses_pca(args.poses, e)} :
         /\ ret' = r
         /\ pc' = IF r.err = "" THEN "done" ELSE "raised"
  /\ UNCHANGED <<fn, args, loc>>

NextPca == CallPca

SpecPca == InitPca /\ [][NextPca]_vars

PcaDone == fn = "transform_poses_pca" /\ pc = "done"

\* inv(transform) @ pad(p), unpadded
MapBack(transform, p) ==
  unpad_poses(MatMul(LinalgInv(transform, "garbage").val, pad_poses(p)))

\* C2: the inverse of the returned transform maps every padded recentered
\* pose back to the input pose, rotation block and translation column alike
\* (stated for the calls whose scale factor is finite).
C2_RoundTrip ==
  (PcaDone /\ IsFinite(ret.scale_factor)) =>
    \A i \in DOMAIN args.poses :
      MapBack(ret.transform, ret.poses[i]) = unpad_poses(args.poses[i])

\* what holds instead: the translation column comes back, the rotation block
\* comes back divided by the scale factor
C2_RoundTripScaled ==
  (PcaDone /\ IsFinite(ret.scale_factor)) =>
    \A i \in DOMAIN args.poses :
      LET back == MapBack(ret.transform, ret.poses[i])
      IN  /\ Col(back, 4) = Col(args.poses[i], 4)
          /\ \A a \in 1..3 : \A b \in 1..3 :
               Mul(back[a][b], ret.scale_factor) = args.poses[i][a][b]

\* C3: for every pose set of N >= 1 poses the recentered poses returned have
\* a maximum absolute translation coordinate of exactly 1.
C3_MaxAbsIsOne ==
  (PcaDone /\ Len(args.poses) >= 1) => MaxAbsTranslation(ret.poses) = One

\* what holds instead: it is 1 when two camera positions differ
C3_MaxAbsIsOneSpread ==
  (PcaDone /\ \E i \in DOMAIN args.poses : \E j \in DOMAIN args.poses :
                 Col(args.poses[i], 4) # Col(args.poses[j], 4))
    => MaxAbsTranslation(ret.poses) = One

PcaInDomain ==
  PcaDone => /\ \A i \in 1..4 : \A j \in 1..4 : ~IsIrr(ret.transform[i][j])
             /\ \A k \in DOMAIN ret.poses : \A i \in 1..3 : \A j \in 1..4 :
                  ~IsIrr(ret.poses[k][i][j])

----------------------------------------------------------------------------
(* focus_point_fn and average_pose applied to pose sets *)

InitFocus ==
  /\ fn = "focus_point_fn"
  /\ args \in {[poses |-> Stack(FocusPool, s)] : s \in IndexSeqs(Len(FocusPool), MaxPoses)}
  /\ loc = NoLoc
  /\ ret = NoRet
  /\ pc = "call"

CallFocus ==
  /\ pc = "call"
  /\ fn = "focus_point_fn"
  /\ \E sing \in SingularOutcomes :
       \E r \in {focus_point_fn(args.poses, sing)} :
         /\ ret' = r
         /\ pc' = IF r.err = "" THEN "done" ELSE "raised"
  /\ UNCHANGED <<fn, args, loc>>

NextFocus == CallFocus

SpecFocus == InitFocus /\ [][NextFocus]_vars

InitAverage ==
  /\ fn = "average_pose"
  /\ args \in {[poses |-> Stack(PcaPool, s)] : s \in IndexSeqs(Len(PcaPool), MaxPoses)}
  /\ loc = NoLoc
  /\ ret = NoRet
  /\ pc = "call"

CallAverage ==
  /\ pc = "call"
  /\ fn = "average_pose"
  /\ \E r \in {average_pose(args.poses)} :
       /\ ret' = r
       /\ pc' = IF r.err = "" THEN "done" ELSE "raised"
  /\ UNCHANGED <<fn, args, loc>>

InitAgg == InitAverage \/ InitFocus \/ InitPca

NextAgg == CallAverage \/ CallFocus \/ CallPca

SpecAgg == InitAgg /\ [][NextAgg]_vars

FocusDone == fn = "focus_point_fn" /\ pc = "done"

UnitForward(poses) == \A i \in DOMAIN poses : Dot(PoseCol(poses, 2)[i], PoseCol(poses, 2)[i]) = One

\* some two forward axes are not parallel
NotAllParallel(poses) ==
  \E i \in DOMAIN poses : \E j \in DOMAIN poses :
    Cross(PoseCol(poses, 2)[i], PoseCol(poses, 2)[j]) # ZeroVec

\* the viewing line of every pose passes through the point P
ThroughPoint(poses, P) ==
  \A i \in DOMAIN poses :
    Cross(VSub(P, PoseCol(poses, 3)[i]), PoseCol(poses, 2)[i]) = ZeroVec

\* the sum over the poses of M_i and of M_i o_i, with M_i = I - d_i d_i^T
SumM(poses) ==
  Tup([a \in 1..3 |-> Tup([b \in 1..3 |->
    Sum(Tup([i \in DOMAIN poses |-> Projector(PoseCol(poses, 2)[i])[a][b]]))])])

SumMo(poses) ==
  Tup([a \in 1..3 |->
    Sum(Tup([i \in DOMAIN poses |->
      MatVec(Projector(PoseCol(poses, 2)[i]), PoseCol(poses, 3)[i])[a]]))])

\* C5: for unit forward axes that are not all parallel, the result x of
\* focus_point_fn satisfies (sum M_i) x = sum M_i o_i, and it is the common
\* point of the viewing lines when they have one.
C5_FocusPoint ==
  (FocusDone /\ UnitForward(args.poses) /\ NotAllParallel(args.poses)) =>
    /\ MatVec(SumM(args.poses), ret.val) = SumMo(args.poses)
    /\ ThroughPoint(args.poses, FocusTarget) => ret.val = FocusTarget

\* three cameras looking along three directions through one point
C5_Witness ==
  /\ FocusDone /\ UnitForward(args.poses) /\ NotAllParallel(args.poses)
  /\ Len(args.poses) = 3
  /\ ThroughPoint(args.poses, FocusTarget)
  /\ ret.val = FocusTarget
  /\ \E i \in 1..3 : PoseCol(args.poses, 2)[i][2].d = 5

\* cameras whose viewing lines have no common point
C5_WitnessSkew ==
  /\ FocusDone /\ UnitForward(args.poses) /\ NotAllParallel(args.poses)
  /\ ~ThroughPoint(args.poses, ret.val)

\* the accumulated matrix sum_i (M_i^T M_i) of focus_point_fn
SumMtM(poses) ==
  Tup([a \in 1..3 |-> Tup([b \in 1..3 |->
    Sum(Tup([i \in DOMAIN poses |->
      MatMul(Transpose(Projector(PoseCol(poses, 2)[i])),
             Projector(PoseCol(poses, 2)[i]))[a][b]]))])])

Aggregations == {"average_pose", "focus_point_fn", "transform_poses_pca"}

\* C9: average_pose, focus_point_fn and transform_poses_pca called with zero
\* poses end in an error and return nothing.
C9_EmptyRejected ==
  (fn \in Aggregations /\ pc # "call" /\ Len(args.poses) = 0) => pc = "raised"

----------------------------------------------------------------------------
(* The convention conversion of the trajectory generators *)

\* np.concatenate([view.R.T, view.T[:, None]], 1) in the top rows of np.eye(4)
ViewMatrix(view) == Append(AppendCol(Transpose(view.R), view.T), BottomRow)

\* m[:rows, 1:3] *= -1
NegateCols(m, rows) ==
  Tup([i \in DOMAIN m |->
    IF i <= rows THEN <<m[i][1], Neg(m[i][2]), Neg(m[i][3]), m[i][4]>> ELSE m[i]])

IngestView_inv(inv) ==
  IF inv.err # "" THEN inv ELSE [err |-> "", val |-> NegateCols(inv.val, 4)]

\* the body of the loop over the views: tmp_view is inverted, then its
\* columns 1 and 2 are negated
IngestView(view, sing) == IngestView_inv(LinalgInv(ViewMatrix(view), sing))

IngestOutcomes(view) == {IngestView(view, sing) : sing \in SingularOutcomes}

\* render_pose[:3, 1:3] *= -1, then np.linalg.inv(render_pose)
OutputPose(render_pose, sing) == LinalgInv(NegateCols(render_pose, 3), sing)

OutputOutcomes(render_pose) == {OutputPose(render_pose, sing) : sing \in SingularOutcomes}

\* an exception leaves the function
Raise(e) == pc' = "raised" /\ ret' = e /\ UNCHANGED <<fn, args, loc>>

----------------------------------------------------------------------------
(* render_path_spiral and generate_spiral_path *)

AbsVecs(vs) == Tup([i \in DOMAIN vs |-> VAbs(vs[i])])

\* np.percentile(np.abs(poses[:, :3, 3]), 90, 0) with 1.0 appended
spiral_rads(poses) == Append(PercentileVec(AbsVecs(PoseCol(poses, 3)), 90), One)

spiral_up(poses) == normalize(SumVec(PoseCol(poses, 1), 3))

\* np.linspace(0.0, 2.0 * np.pi * rots, N + 1)[:-1], in turns
spiral_theta(rots, N) == SubSeq(Linspace(Zero, rots, N + 1), 1, N)

spiral_render_pose_c(c2w, up, c, focal) ==
  Append(viewmatrix(normalize(VSub(c, MatVec(Block(c2w, 3, 4),
                                           <<Zero, Zero, Neg(focal), One>>))),
                    up, c),
         BottomRow)

\* the body of the loop over theta, up to render_pose[:3] = viewmatrix(z, up, c)
spiral_render_pose(c2w, up, rads, focal, theta, zrate) ==
  spiral_render_pose_c(c2w, up,
    MatVec(Block(c2w, 3, 4),
           VMul(<<NpCos(theta), Neg(NpSin(theta)), Neg(NpSin(Mul(theta, zrate))), One>>,
                rads)),
    focal)

\* the loop over the views of render_path_spiral
RenderPathView ==
  /\ fn = "render_path_spiral"
  /\ pc = "views"
  /\ Len(loc.poses) < Len(args.views)
  /\ \E tmp_view \in IngestOutcomes(args.views[Len(loc.poses) + 1]) :
       IF tmp_view.err # "" THEN Raise(tmp_view.err)
       ELSE /\ loc' = [loc EXCEPT !.poses = Append(@, tmp_view.val)]
            /\ UNCHANGED <<fn, args, ret, pc>>

\* np.stack raises on an empty list
RenderPathSetup ==
  /\ fn = "render_path_spiral"
  /\ pc = "views"
  /\ Len(loc.poses) = Len(args.views)
  /\ IF Len(loc.poses) = 0 THEN Raise("ValueError")
     ELSE /\ loc' = [poses |-> loc.poses,
                     c2w |-> poses_avg(loc.poses),
                     up |-> spiral_up(loc.poses),
                     rads |-> spiral_rads(loc.poses),
                     focal |-> args.focal,
                     theta |-> spiral_theta(args.rots, args.N),
                     n_poses |-> args.N,
                     generated |-> <<>>,
                     render_poses |-> <<>>]
          /\ pc' = "render"
          /\ UNCHANGED <<fn, args, ret>>

\* one pose of the spiral; generated is render_pose before the output step
RenderPathRender ==
  /\ fn = "render_path_spiral"
  /\ pc = "render"
  /\ Len(loc.render_poses) < loc.n_poses
  /\ \E render_pose \in {spiral_render_pose(loc.c2w, loc.up, loc.rads, loc.focal,
                                            loc.theta[Len(loc.render_poses) + 1],
                                            args.zrate)} :
       \E out \in OutputOutcomes(render_pose) :
         IF out.err # "" THEN Raise(out.err)
         ELSE /\ loc' = [loc EXCEPT !.generated = render_pose,
                                    !.render_poses = Append(@, out.val)]
              /\ UNCHANGED <<fn, args, ret, pc>>

RenderPathReturn ==
  /\ fn = "render_path_spiral"
  /\ pc = "render"
  /\ Len(loc.render_poses) = loc.n_poses
  /\ ret' = loc.render_poses
  /\ pc' = "done"
  /\ UNCHANGED <<fn, args, loc>>

\* the loop over the views of generate_spiral_path: focal is increased by
\* the focal of views[0]
GenerateSpiralView ==
  /\ fn = "generate_spiral_path"
  /\ pc = "views"
  /\ Len(loc.poses) < Len(args.views)
  /\ \E tmp_view \in IngestOutcomes(args.views[Len(loc.poses) + 1]) :
       IF tmp_view.err # "" THEN Raise(tmp_view.err)
       ELSE /\ loc' = [loc EXCEPT !.poses = Append(@, tmp_view.val),
                                  !.focal = Add(@, get_focal(args.views[1]))]
            /\ UNCHANGED <<fn, args, ret, pc>>

\* focal /= len(views)
GenerateSpiralSetup ==
  /\ fn = "generate_spiral_path"
  /\ pc = "views"
  /\ Len(loc.poses) = Len(args.views)
  /\ IF Len(loc.poses) = 0 THEN Raise("ValueError")
     ELSE /\ loc' = [poses |-> loc.poses,
                     c2w |-> poses_avg(loc.poses),
                     up |-> spiral_up(loc.poses),
                     rads |-> spiral_rads(loc.poses),
                     focal |-> Div(loc.focal, I(Len(args.views))),
                     theta |-> spiral_theta(args.rots, args.N),
                     n_poses |-> args.N,
                     generated |-> <<>>,
                     render_poses |-> <<>>]
          /\ pc' = "render"
          /\ UNCHANGED <<fn, args, ret>>

\* one pose of the spiral; generated is render_pose before the output step
GenerateSpiralRender ==
  /\ fn = "generate_spiral_path"
  /\ pc = "render"
  /\ Len(loc.render_poses) < loc.n_poses
  /\ \E render_pose \in {spiral_render_pose(loc.c2w, loc.up, loc.rads, loc.focal,
                                            loc.theta[Len(loc.render_poses) + 1],
                                            args.zrate)} :
       \E out \in OutputOutcomes(render_pose) :
         IF out.err # "" THEN Raise(out.err)
         ELSE /\ loc' = [loc EXCEPT !.generated = render_pose,
                                    !.render_poses = Append(@, out.val)]
              /\ UNCHANGED <<fn, args, ret, pc>>

GenerateSpiralReturn ==
  /\ fn = "generate_spiral_path"
  /\ pc = "render"
  /\ Len(loc.render_poses) = loc.n_poses
  /\ ret' = loc.render_poses
  /\ pc' = "done"
  /\ UNCHANGED <<fn, args, loc>>

----------------------------------------------------------------------------
(* generate_spherical_sample_path *)

\* the polar angles with the closing sample kept
spherical_phi_closed(polar_rots, N) == Linspace(Zero, Div(polar_rots, I(2)), N + 1)

\* np.linspace(0.0, np.pi * polar_rots, N + 1)[:-1], in turns
spherical_phi(polar_rots, N) == SubSeq(Linspace(Zero, Div(polar_rots, I(2)), N + 1), 1, N)

\* the body of the inner loop, up to render_pose[:3] = viewmatrix(z, up, c)
spherical_render_pose(c2w, up, rads, focal, theta, phi) ==
  spiral_render_pose_c(c2w, up,
    MatVec(Block(c2w, 3, 4),
           VMul(rads, <<Mul(NpSin(phi), NpCos(theta)), Mul(NpSin(phi), NpSin(theta)),
                        NpCos(phi), One>>)),
    focal)

\* the loop over the views: focal is the focal of the view
SphericalView ==
  /\ fn = "generate_spherical_sample_path"
  /\ pc = "views"
  /\ Len(loc.poses) < Len(args.views)
  /\ \E tmp_view \in IngestOutcomes(args.views[Len(loc.poses) + 1]) :
       IF tmp_view.err # "" THEN Raise(tmp_view.err)
       ELSE /\ loc' = [loc EXCEPT !.poses = Append(@, tmp_view.val),
                                  !.focal = get_focal(args.views[Len(loc.poses) + 1])]
            /\ UNCHANGED <<fn, args, ret, pc>>

\* focal_range = np.linspace(0.5, 3, N ** 2 + 1); index = 0; i and j count
\* the turns of the outer and of the inner loop
SphericalSetup ==
  /\ fn = "generate_spherical_sample_path"
  /\ pc = "views"
  /\ Len(loc.poses) = Len(args.views)
  /\ IF Len(loc.poses) = 0 THEN Raise("ValueError")
     ELSE /\ loc' = [poses |-> loc.poses,
                     focal |-> loc.focal,
                     c2w |-> poses_avg(loc.poses),
                     up |-> spiral_up(loc.poses),
                     rads |-> spiral_rads(loc.poses),
                     focal_range |-> Linspace(Q(1, 2), I(3), (args.N * args.N) + 1),
                     index |-> 0,
                     theta |-> spiral_theta(args.azimuthal_rots, args.N),
                     phi |-> spherical_phi(args.polar_rots, args.N),
                     i |-> 0,
                     j |-> 0,
                     generated |-> <<>>,
                     render_poses |-> <<>>]
          /\ pc' = "render"
          /\ UNCHANGED <<fn, args, ret>>

\* one turn of the inner loop
SphericalRender ==
  /\ fn = "generate_spherical_sample_path"
  /\ pc = "render"
  /\ loc.i < Len(loc.theta)
  /\ \E render_pose \in {spherical_render_pose(loc.c2w, loc.up, loc.rads,
                                               loc.focal_range[loc.index + 1],
                                               loc.theta[loc.i + 1],
                                               loc.phi[loc.j + 1])} :
       \E out \in OutputOutcomes(render_pose) :
         IF out.err # "" THEN Raise(out.err)
         ELSE /\ loc' = [loc EXCEPT !.generated = render_pose,
                                    !.render_poses = Append(@, out.val),
                                    !.index = @ + 1,
                                    !.j = IF @ + 1 = Len(loc.phi) THEN 0 ELSE @ + 1,
                                    !.i = IF loc.j + 1 = Len(loc.phi) THEN @ + 1 ELSE @]
              /\ UNCHANGED <<fn, args, ret, pc>>

SphericalReturn ==
  /\ fn = "generate_spherical_sample_path"
  /\ pc = "render"
  /\ loc.i = Len(loc.theta)
  /\ ret' = loc.render_poses
  /\ pc' = "done"
  /\ UNCHANGED <<fn, args, loc>>

----------------------------------------------------------------------------
(* generate_ellipse_path *)

Half == Q(1, 2)

\* get_positions for one theta
get_positions_theta(low, high, z_low, z_high, z_variation, z_phase, theta) ==
  << Add(low[1], Mul(Sub(high[1], low[1]), Add(Mul(NpCos(theta), Half), Half))),
     Add(low[2], Mul(Sub(high[2], low[2]), Add(Mul(NpSin(theta), Half), Half))),
     Mul(z_variation,
         Add(z_low[3], Mul(Sub(z_high[3], z_low[3]),
                           Add(Mul(NpCos(Add(theta, z_phase)), Half), Half)))) >>

get_positions(low, high, z_low, z_high, z_variation, z_phase, theta) ==
  Tup([k \in DOMAIN theta |->
    get_positions_theta(low, high, z_low, z_high, z_variation, z_phase, theta[k])])

\* np.linalg.norm(positions[1:] - positions[:-1], axis=-1)
ellipse_lengths(positions) ==
  Tup([k \in 1..(Len(positions) - 1) |-> Norm(VSub(positions[k + 1], positions[k]))])

\* the segment lengths the model has when it does not know the computed ones
LengthPool == {One, I(2)}

LengthsOutcomes(lengths) ==
  IF \E k \in DOMAIN lengths : IsIrr(lengths[k])
    THEN {Tup(l) : l \in [DOMAIN lengths -> LengthPool]}
    ELSE {lengths}

\* sample_np(None, theta, np.log(lengths), n_frames + 1)
ellipse_resample(theta, lengths, n_frames) ==
  sample_np(theta, Tup([k \in DOMAIN lengths |-> NpLog(lengths[k])]), n_frames + 1)

ellipse_up_ind(avg_up, ind_up) ==
  Tup([i \in 1..3 |-> Mul(IF i = ind_up THEN One ELSE Zero, NSign(avg_up[ind_up]))])

ellipse_up_avg(avg_up) == ellipse_up_ind(avg_up, Argmax(VAbs(avg_up)))

\* lines 355-358: the axis closest to the average up vector
ellipse_up(poses) == ellipse_up_avg(normalize(MeanVec(PoseCol(poses, 1), 3)))

\* np.array([center[0], center[1], center[2]*0])
ellipse_offset(center) == <<center[1], center[2], Mul(center[3], Zero)>>

\* np.percentile(np.abs(poses[:, :3, 3] - offset), 90, axis=0)
ellipse_sc(poses, offset) ==
  PercentileVec(Tup([i \in DOMAIN poses |-> VAbs(VSub(PoseCol(poses, 3)[i], offset))]), 90)

ellipse_bounds_sc(poses, center, offset, sc) ==
  [center |-> center,
   low |-> VAdd(VNeg(sc), offset),
   high |-> VAdd(sc, offset),
   z_low |-> PercentileVec(PoseCol(poses, 3), 10),
   z_high |-> PercentileVec(PoseCol(poses, 3), 90)]

ellipse_bounds_offset(poses, center, offset) ==
  ellipse_bounds_sc(poses, center, offset, ellipse_sc(poses, offset))

\* lines 320-330
ellipse_bounds(poses, center) == ellipse_bounds_offset(poses, center, ellipse_offset(center))

\* lines 362-364: render_pose before the output step
ellipse_render_pose(p, center, up, transform_inv) ==
  MatMul(transform_inv, Append(viewmatrix(VSub(p, center), up, p), BottomRow))

EllipseView ==
  /\ fn = "generate_ellipse_path"
  /\ pc = "views"
  /\ Len(loc.poses) < Len(args.views)
  /\ \E tmp_view \in IngestOutcomes(args.views[Len(loc.poses) + 1]) :
       IF tmp_view.err # "" THEN Raise(tmp_view.err)
       ELSE /\ loc' = [loc EXCEPT !.poses = Append(@, tmp_view.val)]
            /\ UNCHANGED <<fn, args, ret, pc>>

\* poses, transform = transform_poses_pca(poses), after np.stack
EllipsePca ==
  /\ fn = "generate_ellipse_path"
  /\ pc = "views"
  /\ Len(loc.poses) = Len(args.views)
  /\ IF Len(loc.poses) = 0 THEN Raise("ValueError")
     ELSE \E e \in EigOutcomes(Covariance(loc.poses)) :
            \E r \in {transform_poses_pca(loc.poses, e)} :
              /\ loc' = [poses |-> r.poses, transform |-> r.transform]
              /\ pc' = "focus"
              /\ UNCHANGED <<fn, args, ret>>

\* center = focus_point_fn(poses), then the bounds of the ellipse
EllipseFocus ==
  /\ fn = "generate_ellipse_path"
  /\ pc = "focus"
  /\ \E center \in {focus_point_fn(loc.poses, sing) : sing \in SingularOutcomes} :
       IF center.err # "" THEN Raise(center.err)
       ELSE \E b \in {ellipse_bounds(loc.poses, center.val)} :
              /\ loc' = [poses |-> loc.poses, transform |-> loc.transform,
                         center |-> b.center, low |-> b.low, high |-> b.high,
                         z_low |-> b.z_low, z_high |-> b.z_high]
              /\ pc' = "theta"
              /\ UNCHANGED <<fn, args, ret>>

\* positions = positions[:-1], and the up vector; theta is kept whole
EllipseDrop(theta, positions) ==
  /\ loc' = [poses |-> loc.poses, transform |-> loc.transform, center |-> loc.center,
             theta |-> theta,
             positions |-> SubSeq(positions, 1, Len(positions) - 1),
             up |-> ellipse_up(loc.poses),
             n_poses |-> Len(positions) - 1,
             generated |-> <<>>,
             render_poses |-> <<>>]
  /\ pc' = "render"
  /\ UNCHANGED <<fn, args, ret>>

\* lines 342-358
EllipseTheta ==
  /\ fn = "generate_ellipse_path"
  /\ pc = "theta"
  /\ \E theta \in {Linspace(Zero, One, args.n_frames + 1)} :
       \E positions \in {get_positions(loc.low, loc.high, loc.z_low, loc.z_high,
                                      args.z_variation, args.z_phase, theta)} :
         IF args.const_speed
           THEN \E lengths \in LengthsOutcomes(ellipse_lengths(positions)) :
                  \E theta_new \in {ellipse_resample(theta, lengths, args.n_frames)} :
                    EllipseDrop(theta_new,
                                get_positions(loc.low, loc.high, loc.z_low, loc.z_high,
                                              args.z_variation, args.z_phase, theta_new))
           ELSE EllipseDrop(theta, positions)

\* one turn of the loop over the positions
EllipseRender ==
  /\ fn = "generate_ellipse_path"
  /\ pc = "render"
  /\ Len(loc.render_poses) < loc.n_poses
  /\ \E transform_inv \in {LinalgInv(loc.transform, sing) : sing \in SingularOutcomes} :
       IF transform_inv.err # "" THEN Raise(transform_inv.err)
       ELSE \E render_pose \in {ellipse_render_pose(loc.positions[Len(loc.render_poses) + 1],
                                                    loc.center, loc.up, transform_inv.val)} :
              \E out \in OutputOutcomes(render_pose) :
                IF out.err # "" THEN Raise(out.err)
                ELSE /\ loc' = [loc EXCEPT !.generated = render_pose,
                                           !.render_poses = Append(@, out.val)]
                     /\ UNCHANGED <<fn, args, ret, pc>>

EllipseReturn ==
  /\ fn = "generate_ellipse_path"
  /\ pc = "render"
  /\ Len(loc.render_poses) = loc.n_poses
  /\ ret' = loc.render_poses
  /\ pc' = "done"
  /\ UNCHANGED <<fn, args, loc>>

----------------------------------------------------------------------------
(* generate_spherify_path *)

min_line_dist_inv(inv, b_mean) ==
  IF inv.err # "" THEN [err |-> inv.err, val |-> <<>>]
  ELSE [err |-> "", val |-> VNeg(MatVec(inv.val, b_mean))]

min_line_dist_A(A_i, rays_o, sing) ==
  min_line_dist_inv(
    LinalgInv(MeanMat(Tup([i \in DOMAIN A_i |-> MatMul(Transpose(A_i[i]), A_i[i])]), 3, 3),
              sing),
    MeanVec(Tup([i \in DOMAIN A_i |-> VNeg(MatVec(A_i[i], rays_o[i]))]), 3))

\* sing chooses what np.linalg.inv does to a singular mean
min_line_dist(rays_o, rays_d, sing) == min_line_dist_A(Projectors(rays_d), rays_o, sing)

spherify_c2w_vec1(vec0, vec1, pos) ==
  viewmatrix_m(vec1, normalize(Cross(vec0, vec1)), vec0, pos)

spherify_c2w_vec0(vec0, pos) ==
  spherify_c2w_vec1(vec0, normalize(Cross(<<Q(1, 10), Q(1, 5), Q(3, 10)>>, vec0)), pos)

\* lines 398-404
spherify_c2w(poses, center) ==
  spherify_c2w_vec0(
    normalize(MeanVec(Tup([i \in DOMAIN poses |-> VSub(PoseCol(poses, 3)[i], center)]), 3)),
    center)

spherify_zh(poses_reset, rad, zh) ==
  [poses_reset |-> poses_reset, rad |-> rad, zh |-> zh,
   radcircle |-> Sqrt(Sub(Mul(rad, rad), Mul(zh, zh)))]

\* the centroid height taken before the translations are rescaled
spherify_sc_late(poses_reset, rad, sc) ==
  spherify_zh(Tup([i \in DOMAIN poses_reset |-> ScaleTranslation(poses_reset[i], sc)]),
              Mul(rad, sc),
              Mean(Tup([i \in DOMAIN poses_reset |-> poses_reset[i][3][4]])))

\* lines 410-416
spherify_sc(poses_reset, rad, sc) ==
  spherify_zh(Tup([i \in DOMAIN poses_reset |-> ScaleTranslation(poses_reset[i], sc)]),
              Mul(rad, sc),
              Mean(Tup([i \in DOMAIN poses_reset |-> Mul(poses_reset[i][3][4], sc)])))

spherify_rad_sc(poses_reset, rad) == spherify_sc(poses_reset, rad, Div(One, rad))

\* line 408
spherify_rad(poses_reset) ==
  spherify_rad_sc(poses_reset,
                  Sqrt(Mean(Tup([i \in DOMAIN poses_reset |->
                         Dot(PoseCol(poses_reset, 3)[i], PoseCol(poses_reset, 3)[i])]))))

spherify_reset_inv(poses, inv) ==
  IF inv.err # "" THEN [err |-> inv.err]
  ELSE [err |-> "",
        val |-> spherify_rad(Tup([i \in DOMAIN poses |->
                  MatMul(inv.val, pad_poses(poses[i]))]))]

\* line 406 and what follows it; sing chooses what np.linalg.inv does
spherify_reset(poses, center, sing) ==
  spherify_reset_inv(poses, LinalgInv(Append(spherify_c2w(poses, center), BottomRow), sing))

spherify_render_pose_vec0(vec2, vec0, pos) ==
  Append(viewmatrix_m(vec0, normalize(Cross(vec2, vec0)), vec2, pos), BottomRow)

spherify_render_pose_vec2(vec2, pos) ==
  spherify_render_pose_vec0(vec2, normalize(Cross(vec2, <<Zero, Zero, I(-1)>>)), pos)

spherify_render_pose_origin(camorigin) ==
  spherify_render_pose_vec2(normalize(camorigin), camorigin)

\* the body of the loop over th
spherify_render_pose(radcircle, zh, th) ==
  spherify_render_pose_origin(<<Mul(radcircle, NpCos(th)), Mul(radcircle, NpSin(th)), zh>>)

\* the number of poses of the circle
SpherifyFrames == 120

SpherifyView ==
  /\ fn = "generate_spherify_path"
  /\ pc = "views"
  /\ Len(loc.poses) < Len(args.views)
  /\ \E tmp_view \in IngestOutcomes(args.views[Len(loc.poses) + 1]) :
       IF tmp_view.err # "" THEN Raise(tmp_view.err)
       ELSE /\ loc' = [loc EXCEPT !.poses = Append(@, tmp_view.val)]
            /\ UNCHANGED <<fn, args, ret, pc>>

\* lines 378-417
SpherifySetup ==
  /\ fn = "generate_spherify_path"
  /\ pc = "views"
  /\ Len(loc.poses) = Len(args.views)
  /\ IF Len(loc.poses) = 0 THEN Raise("ValueError")
     ELSE \E center \in {min_line_dist(PoseCol(loc.poses, 3), PoseCol(loc.poses, 2), sing)
                           : sing \in SingularOutcomes} :
            IF center.err # "" THEN Raise(center.err)
            ELSE \E r \in {spherify_reset(loc.poses, center.val, sing)
                             : sing \in SingularOutcomes} :
                   IF r.err # "" THEN Raise(r.err)
                   ELSE /\ loc' = [poses |-> loc.poses,
                                   center |-> center.val,
                                   poses_reset |-> r.val.poses_reset,
                                   rad |-> r.val.rad,
                                   zh |-> r.val.zh,
                                   radcircle |-> r.val.radcircle,
                                   th |-> Linspace(Zero, One, SpherifyFrames),
                                   generated |-> <<>>,
                                   new_poses |-> <<>>]
                        /\ pc' = "render"
                        /\ UNCHANGED <<fn, args, ret>>

\* one turn of the loop over th: render_pose is appended as it is
SpherifyRender ==
  /\ fn = "generate_spherify_path"
  /\ pc = "render"
  /\ Len(loc.new_poses) < Len(loc.th)
  /\ \E render_pose \in {spherify_render_pose(loc.radcircle, loc.zh,
                                              loc.th[Len(loc.new_poses) + 1])} :
       /\ loc' = [loc EXCEPT !.generated = render_pose,
                             !.new_poses = Append(@, render_pose)]
       /\ UNCHANGED <<fn, args, ret, pc>>

\* np.stack(new_poses, 0)
SpherifyReturn ==
  /\ fn = "generate_spherify_path"
  /\ pc = "render"
  /\ Len(loc.new_poses) = Len(loc.th)
  /\ ret' = loc.new_poses
  /\ pc' = "done"
  /\ UNCHANGED <<fn, args, loc>>

----------------------------------------------------------------------------
(* The inputs of the trajectory generators *)

MaxViews == 2

MaxN == 2

MaxFrames == 3

\* the view whose ingestion gives the camera pose [Rc | C]:
\* R = Rc diag(1, -1, -1) and T = -R^T C
ViewOfPose_R(R, C, FoVx) == [R |-> R, T |-> VNeg(MatVec(Transpose(R), C)), FoVx |-> FoVx]

ViewOfPose(Rc, C, FoVx) == ViewOfPose_R(MatMul(Rc, Diag(<<One, I(-1), I(-1)>>)), C, FoVx)

\* four cameras at the corners of a square; views 1 and 2 look along one
\* direction, and the viewing axis of view 4 is on no coordinate axis
ViewPool ==
  << ViewOfPose(RotY90, Vec(1, 0, 0), One), ViewOfPose(RotY90, Vec(-1, 0, 0), I(3)),
     ViewOfPose(RotX90, Vec(0, 1, 0), I(2)), ViewOfPose(RotX345, Vec(0, -1, 0), One) >>

\* the lists of at most n different views of the pool, in every order
ViewSeqs(n) ==
  {Stack(ViewPool, s) : s \in {q \in UNION {[1..m -> 1..Len(ViewPool)] : m \in 0..n} :
                                 \A i \in DOMAIN q : \A j \in DOMAIN q : i # j => q[i] # q[j]}}

InitRenderPath ==
  /\ fn = "render_path_spiral"
  /\ args \in [views : ViewSeqs(MaxViews), focal : {I(50)}, zrate : {Half},
               rots : {I(2)}, N : 0..MaxN]
  /\ loc = [poses |-> <<>>]
  /\ ret = NoRet
  /\ pc = "views"

\* focal = 0 hides the argument
InitGenerateSpiral ==
  /\ fn = "generate_spiral_path"
  /\ args \in [views : ViewSeqs(MaxViews), focal : {Q(3, 2), I(2)}, zrate : {Zero},
               rots : {One}, N : 0..MaxN]
  /\ loc = [poses |-> <<>>, focal |-> Zero]
  /\ ret = NoRet
  /\ pc = "views"

InitSpherical ==
  /\ fn = "generate_spherical_sample_path"
  /\ args \in [views : ViewSeqs(MaxViews), azimuthal_rots : {One},
               polar_rots : {Q(3, 4), One}, N : 0..MaxN]
  /\ loc = [poses |-> <<>>, focal |-> "unbound"]
  /\ ret = NoRet
  /\ pc = "views"

InitEllipse ==
  /\ fn = "generate_ellipse_path"
  /\ args \in [views : ViewSeqs(MaxViews), n_frames : 1..MaxFrames,
               const_speed : BOOLEAN, z_variation : {Zero}, z_phase : {Zero}]
  /\ loc = [poses |-> <<>>]
  /\ ret = NoRet
  /\ pc = "views"

InitSpherify ==
  /\ fn = "generate_spherify_path"
  /\ args \in [views : ViewSeqs(MaxViews)]
  /\ loc = [poses |-> <<>>]
  /\ ret = NoRet
  /\ pc = "views"

NextRenderPath == RenderPathView \/ RenderPathSetup \/ RenderPathRender \/ RenderPathReturn

NextGenerateSpiral ==
  GenerateSpiralView \/ GenerateSpiralSetup \/ GenerateSpiralRender \/ GenerateSpiralReturn

NextSpherical == SphericalView \/ SphericalSetup \/ SphericalRender \/ SphericalReturn

NextEllipse ==
  EllipseView \/ EllipsePca \/ EllipseFocus \/ EllipseTheta \/ EllipseRender \/ EllipseReturn

NextSpherify == SpherifyView \/ SpherifySetup \/ SpherifyRender \/ SpherifyReturn

SpecSpiral == InitGenerateSpiral /\ [][NextGenerateSpiral]_vars

SpecSpherical == InitSpherical /\ [][NextSpherical]_vars

\* cameras of a capture rig at integer positions, looking along the x, y and
\* z axes of the world
RigPool ==
  << ViewOfPose(RotY90, Vec(1, 0, 0), One), ViewOfPose(RotX90, Vec(0, 1, 0), One),
     ViewOfPose(RotI, Vec(0, 0, 1), One), ViewOfPose(RotY90, Vec(-1, 1, 0), One),
     ViewOfPose(RotX90, Vec(2, 0, 1), One), ViewOfPose(RotI, Vec(1, 1, -2), One),
     ViewOfPose(RotX180, Vec(0, -1, 1), One) >>

\* the rigs of at most MaxPoses cameras of the pool
InitSpherifyRig ==
  /\ fn = "generate_spherify_path"
  /\ args \in {[views |-> Stack(RigPool, s)] : s \in IndexSeqs(Len(RigPool), MaxPoses)}
  /\ loc = [poses |-> <<>>]
  /\ ret = NoRet
  /\ pc = "views"

SpecSpherify == (InitSpherify \/ InitSpherifyRig) /\ [][NextSpherify]_vars

SpecEllipse == InitEllipse /\ [][NextEllipse]_vars

InitFocusEllipse == InitFocus \/ InitEllipse

NextFocusEllipse == CallFocus \/ NextEllipse

SpecFocusEllipse == InitFocusEllipse /\ [][NextFocusEllipse]_vars

InitGen == InitRenderPath \/ InitGenerateSpiral \/ InitSpherical \/ InitEllipse \/ InitSpherify

NextGen == NextRenderPath \/ NextGenerateSpiral \/ NextSpherical \/ NextEllipse \/ NextSpherify

SpecGen == InitGen /\ [][NextGen]_vars

Init == InitView \/ InitCdf \/ InitAgg \/ InitGen

Next == NextView \/ NextCdf \/ NextAgg \/ NextGen

Spec == Init /\ [][Next]_vars

----------------------------------------------------------------------------
(* The trajectory generators: properties *)

Generators ==
  {"render_path_spiral", "generate_spiral_path", "generate_spherical_sample_path",
   "generate_ellipse_path", "generate_spherify_path"}

\* the poses a generator has appended so far
Produced == IF fn = "generate_spherify_path" THEN loc.new_poses ELSE loc.render_poses

Rendered == fn \in Generators /\ pc \in {"render", "done"} /\ Len(Produced) >= 1

\* a matrix of finite numbers that has an inverse
Regular(m) ==
  /\ \A i \in DOMAIN m : \A j \in DOMAIN m[i] : IsFinite(m[i][j])
  /\ ~IsZero(Det(m))

\* C6: in every generator each input view is ingested by inverting its
\* [R^T | T] matrix and negating columns 1 and 2, so that the output step
\* gives the view's matrix back, and each pose appended to the result is the
\* generated pose with columns 1 and 2 negated and then inverted.
C6_ConversionTwice ==
  /\ (fn \in Generators /\ pc = "views") =>
       \A i \in DOMAIN loc.poses :
         OutputPose(loc.poses[i], "raise") = [err |-> "", val |-> ViewMatrix(args.views[i])]
  /\ (Rendered /\ Regular(loc.generated)) =>
       OutputPose(loc.generated, "raise") = [err |-> "", val |-> Produced[Len(Produced)]]

\* the four generators that have the output step
C6_ConversionTwiceButSpherify ==
  /\ (fn \in Generators /\ pc = "views") =>
       \A i \in DOMAIN loc.poses :
         OutputPose(loc.poses[i], "raise") = [err |-> "", val |-> ViewMatrix(args.views[i])]
  /\ (Rendered /\ Regular(loc.generated) /\ fn # "generate_spherify_path") =>
       OutputPose(loc.generated, "raise") = [err |-> "", val |-> Produced[Len(Produced)]]

\* generate_spherify_path appends the generated pose as it is
C6_SpherifyUnconverted ==
  (Rendered /\ fn = "generate_spherify_path") => Produced[Len(Produced)] = loc.generated

FocalValues(views) == Tup([i \in DOMAIN views |-> get_focal(views[i])])

SpiralSetUp == fn = "generate_spiral_path" /\ pc \in {"render", "done"}

\* C7: the focal depth generate_spiral_path looks at is the mean of the
\* focal values of all the views, whatever the focal argument.
C7_FocalIsMean == SpiralSetUp => loc.focal = Mean(FocalValues(args.views))

\* what the loop accumulates: the focal value of the first view, once per view
C7_FocalIsFirst == SpiralSetUp => loc.focal = get_focal(args.views[1])

EllipseSampled == fn = "generate_ellipse_path" /\ pc \in {"render", "done"}

NonDecreasing(s) == \A k \in 1..(Len(s) - 1) : Leq(s[k], s[k + 1])

\* C8: generate_ellipse_path evaluates n_frames + 1 path parameters, in
\* non-decreasing order; the last one, which closes the loop at no more than
\* a whole turn, is the only one discarded, every retained parameter is in
\* [0, 2*pi), and n_frames poses are returned.
C8_EllipseFrames ==
  /\ EllipseSampled =>
       /\ Len(loc.theta) = args.n_frames + 1
       /\ NonDecreasing(loc.theta)
       /\ Leq(loc.theta[args.n_frames + 1], One)
       /\ Len(loc.positions) = args.n_frames
       /\ \A k \in 1..args.n_frames : Leq(Zero, loc.theta[k]) /\ Less(loc.theta[k], One)
  /\ (fn = "generate_ellipse_path" /\ pc = "done") => Len(ret) = args.n_frames

\* the counts alone
C8_EllipseCounts ==
  /\ EllipseSampled =>
       Len(loc.theta) = args.n_frames + 1 /\ Len(loc.positions) = args.n_frames
  /\ (fn = "generate_ellipse_path" /\ pc = "done") => Len(ret) = args.n_frames

\* the parameters when the focus point is finite: the last one is a whole
\* turn, or short of it when the parameters are resampled
C8_EllipseFiniteFocus ==
  (EllipseSampled /\ \A i \in 1..3 : IsFinite(loc.center[i])) =>
    /\ NonDecreasing(loc.theta)
    /\ IF args.const_speed THEN Less(loc.theta[args.n_frames + 1], One)
       ELSE loc.theta[args.n_frames + 1] = One
    /\ \A k \in 1..args.n_frames : Leq(Zero, loc.theta[k]) /\ Less(loc.theta[k], One)

Singular(poses) == IsZero(Det(SumMtM(poses)))

\* C10: when the accumulated matrix is singular, focus_point_fn ends in an
\* error, and generate_ellipse_path goes no further than the focus point.
C10_SingularRejected ==
  /\ (fn = "focus_point_fn" /\ pc # "call" /\ Len(args.poses) >= 1 /\ Singular(args.poses))
       => pc = "raised"
  /\ (fn = "generate_ellipse_path" /\ pc \in {"theta", "render", "done"})
       => ~Singular(loc.poses)

\* the rejection of the matrices whose elimination is exact
C10_ExactSingularRejected ==
  /\ (fn = "focus_point_fn" /\ pc # "call" /\ Len(args.poses) >= 1 /\ Singular(args.poses)
        /\ ExactElimination(MeanMat(Projectors(PoseCol(args.poses, 2)), 3, 3)))
       => pc = "raised"


-----------------------------------------------------------------------------
(* The focal counter of generate_spherical_sample_path *)

SphericalLooping ==
  fn = "generate_spherical_sample_path" /\ pc \in {"render", "done"}

\* the pose generated last is the one of azimuth (k - 1) \div N and of polar
\* step (k - 1) % N, looking at the depth focal_range[k - 1] (0-based)
SphericalLastPose(k) ==
  loc.generated =
    spherical_render_pose(loc.c2w, loc.up, loc.rads, loc.focal_range[k],
                          loc.theta[((k - 1) \div args.N) + 1],
                          loc.phi[((k - 1) % args.N) + 1])

\* C11: in generate_spherical_sample_path the counter index is within
\* 0 .. N*N of the N*N+1 entries of focal_range at every read, it is the
\* number of poses generated so far (one more per pose, so no entry is read
\* twice), the poses come azimuth by azimuth, each with all its polar steps,
\* and the function returns N*N poses.
C11_SphericalIndex ==
  SphericalLooping =>
    /\ Len(loc.focal_range) = (args.N * args.N) + 1
    /\ loc.index \in 0..(args.N * args.N)
    /\ loc.index = Len(loc.render_poses)
    /\ loc.index = (loc.i * args.N) + loc.j
    /\ loc.i <= args.N
    /\ (loc.i < args.N) => (loc.j < args.N /\ loc.index + 1 \in DOMAIN loc.focal_range)
    /\ (loc.index > 0) => SphericalLastPose(loc.index)
    /\ (pc = "done") => (ret = loc.render_poses /\ Len(ret) = args.N * args.N)

\* all N*N poses of a sweep with N = MaxN are returned, the last one finite
C11_Witness ==
  /\ fn = "generate_spherical_sample_path"
  /\ pc = "done"
  /\ args.N = MaxN
  /\ Len(ret) = MaxN * MaxN
  /\ loc.index = MaxN * MaxN
  /\ Regular(ret[MaxN * MaxN])

-----------------------------------------------------------------------------
(* The orbit radius of generate_spherify_path *)

SpherifySetUp == fn = "generate_spherify_path" /\ pc \in {"render", "done"}

\* the recentered camera positions poses_reset[:, :3, 3]
ResetPositions == PoseCol(loc.poses_reset, 3)

FiniteVecs(vs) == \A i \in DOMAIN vs : \A j \in DOMAIN vs[i] : IsFinite(vs[i][j])

\* the recentered positions are points and the rescaling has made rad 1:
\* they were not all at the sphere center
SpherifyRescaled == SpherifySetUp /\ FiniteVecs(ResetPositions) /\ loc.rad = One

SumSquares(vs) == Sum([i \in DOMAIN vs |-> Dot(vs[i], vs[i])])

SumHeights(vs) == Sum([i \in DOMAIN vs |-> vs[i][3]])

====
